---- MODULE Spec2Model ----
(***************************************************************************)
(* A model of sagemaker_defaults.py: the process-wide default store, the   *)
(* set-if-absent engine over request trees (built on dpath), the           *)
(* request-time hook, the default-session singleton and the generator of   *)
(* role-injecting class wrappers.                                          *)
(*                                                                         *)
(* A request tree (a nesting of Python dicts, lists and scalars) is a      *)
(* function from paths to tags.  A path is a sequence of segments, each a  *)
(* string; dpath compares a list index with a path segment by its decimal  *)
(* string, so the i-th element of a list is the child "i".  The tag of a   *)
(* node is MAP for a dict, LIST for a list, and the scalar itself          *)
(* otherwise (NONE is Python's None).  The root <<>> is the params dict.   *)
(***************************************************************************)
EXTENDS Integers, Sequences, FiniteSets, TLC

VARIABLES
    defaults,         \* _defaults: a function whose DOMAIN is the set of keys present
    params,           \* the request tree handed to the last hook / engine call, after it
    pre,              \* the same tree before that call
    last,             \* the last call: what was called, with what, and how it ended
    role_set,         \* the argument of the latest set_default_role call ("": none yet)
    default_session,  \* _default_session: NoSession (None) or a session id
    created,          \* number of sagemaker.Session objects constructed so far
    hooked,           \* the sessions whose sagemaker_client is the hooked client
    first,            \* the first session that became the default (NoSession: none yet)
    sess,             \* the last session call: what was called and what it returned
    history,          \* _history: the sequence of fully-qualified names recorded
    members,          \* the SDK namespace: module -> sequence of its members
    todo,             \* modules the load-time loop has still to import and wrap
    stack,            \* the _wrap_classes frames: <<module, index of next member>>
    processed,        \* module -> number of times _wrap_classes started on it
    wrapped,          \* class -> number of times _wrap_class was applied to it
    globs             \* names bound in this module's globals()

vars == <<defaults, params, pre, last, role_set, default_session, created, hooked, first, sess,
          history, members, todo, stack, processed, wrapped, globs>>

storeVars == <<defaults, params, pre, last, role_set>>
sessVars  == <<default_session, created, hooked, first, sess>>
genVars   == <<history, members, todo, stack, processed, wrapped, globs>>

-----------------------------------------------------------------------------
(* Bounds of the model *)

\* the longest repeated group a caller puts into a request tree
MaxElems == 2

\* the number of sagemaker.Session objects a run constructs
MaxSessions == 3

\* the most members a module of the SDK has
MaxMembers == 2

-----------------------------------------------------------------------------
(* Trees *)

MAP  == "{}"
LIST == "[]"
NONE == "None"
OK   == "ok"

Range(s) == {s[i] : i \in 1..Len(s)}

IsPrefix(p, q) == Len(p) <= Len(q) /\ SubSeq(q, 1, Len(p)) = p

IsLeaf(t, p) == t[p] \notin {MAP, LIST}

\* a Python value that is a scalar, the empty dict, the empty list
Scalar(v) == (<<>> :> v)
EmptyDict == (<<>> :> MAP)

\* the decimal string of a list index (f'{i}')
Str(i) == <<"0", "1", "2", "3", "4", "5", "6", "7", "8", "9">>[i + 1]

\* a Python list of scalars as a value tree
ListOf(s) == [p \in {<<>>} \cup {<<Str(i - 1)>> : i \in 1..Len(s)} |->
                 IF p = <<>> THEN LIST
                 ELSE s[CHOOSE i \in 1..Len(s) : Str(i - 1) = p[1]]]

\* the value at path p of tree t, as a value tree
Sub(t, p) == [r \in {SubSeq(q, Len(p) + 1, Len(q)) : q \in {x \in DOMAIN t : IsPrefix(p, x)}}
                 |-> t[p \o r]]

\* tree t with value tree v put at path p (whose parent exists)
Graft(t, p, v) ==
    [q \in {x \in DOMAIN t : ~IsPrefix(p, x)} \cup {p \o r : r \in DOMAIN v} |->
        IF IsPrefix(p, q) THEN v[SubSeq(q, Len(p) + 1, Len(q))] ELSE t[q]]

\* search as a test of truth would have it: a None is no value
search_truthy(d, path) ==
    IF path \in DOMAIN d /\ d[path] # NONE
    THEN [q \in {x \in DOMAIN d : IsPrefix(x, path) \/ IsPrefix(path, x)} |-> d[q]]
    ELSE EmptyDict

\* dpath.util.search(d, path) for a path without glob characters: the view of
\* d that holds the matched node (with all below it) and the chain leading to
\* it; the empty dict when nothing matches
search(d, path) ==
    IF path \in DOMAIN d
    THEN [q \in {x \in DOMAIN d : IsPrefix(x, path) \/ IsPrefix(path, x)} |-> d[q]]
    ELSE EmptyDict

\* dpath.util.values(d, f'{pre}*'): the paths matched by the glob, one per
\* child of the node at pre (elements of a list, keys of a dict)
values(d, pre_) ==
    {q \in DOMAIN d : Len(q) = Len(pre_) + 1 /\ IsPrefix(pre_, q)}

\* dpath.util.new(d, path, value): walk the path from segment i, creating a
\* dict for every missing intermediate node, then assign the last segment.
\* An intermediate node that is a scalar raises PathNotFound; a list cannot
\* be indexed by a key, which raises TypeError.
RECURSIVE new_walk(_, _, _, _)
new_walk(d, path, i, v) ==
    LET cur == SubSeq(path, 1, i - 1)
        nxt == SubSeq(path, 1, i)
    IN  IF i = Len(path)
        THEN IF d[cur] = MAP \/ (d[cur] = LIST /\ nxt \in DOMAIN d)
             THEN [tree |-> Graft(d, path, v), err |-> OK]
             ELSE [tree |-> d, err |-> "TypeError"]
        ELSE IF nxt \in DOMAIN d
             THEN IF IsLeaf(d, nxt)
                  THEN [tree |-> d, err |-> "PathNotFound"]
                  ELSE new_walk(d, path, i + 1, v)
             ELSE IF d[cur] = MAP
                  THEN new_walk(d @@ (nxt :> MAP), path, i + 1, v)
                  ELSE [tree |-> d, err |-> "TypeError"]

\* new that writes nothing when the value is None
new_skip_none(d, path, v) ==
    IF v = Scalar(NONE) THEN [tree |-> d, err |-> OK] ELSE new_walk(d, path, 1, v)

new(d, path, v) == new_walk(d, path, 1, v)

-----------------------------------------------------------------------------
(* The default store: _defaults and its setters and getters *)

\* _defaults[key] = value
Put(D, key, v) == [k \in DOMAIN D \cup {key} |-> IF k = key THEN v ELSE D[k]]

\* _defaults.get(key, None)
Get(D, key) == IF key \in DOMAIN D THEN D[key] ELSE Scalar(NONE)

\* what the ambient resolver, sagemaker.get_execution_role(), can do when it
\* is called: return the role of the calling context, or raise
FAIL == "raises"
AmbientOutcomes == {"role-ambient", FAIL}

\* inputs of the setters
RoleArns    == {"role-A", "role-B"}
SubnetLists == {<<"subnet-1">>}
GroupLists  == {<<"sg-1">>}
KmsKeys     == {"kms-1"}
TagDicts    == {<< <<"env", "prod">> >>}   \* a dict as its items, in order

set_default_vpc(D, subnet_ids, security_group_ids) ==
    Put(Put(D, "vpc_subnet_ids", ListOf(subnet_ids)),
        "vpc_security_group_ids", ListOf(security_group_ids))

set_default_s3_key(D, kms_key_id) == Put(D, "s3_key_id", Scalar(kms_key_id))

set_default_ebs_key(D, kms_key_id) == Put(D, "ebs_key_id", Scalar(kms_key_id))

set_default_tags(D, tag_dict) == Put(D, "tag_key_values", tag_dict)

\* set_default_role as _defaults.setdefault: the first override stays
set_default_role_first(D, role_arn) ==
    IF "partial_role" \in DOMAIN D THEN D ELSE Put(D, "partial_role", Scalar(role_arn))

set_default_role(D, role_arn) == Put(D, "partial_role", Scalar(role_arn))

\* the result of calling a provider: the value returned, or the exception
\* raised, and how many times the ambient resolver was called on the way
Returned(v, n) == [err |-> OK, val |-> v, ambient |-> n]
Raised(e, n)   == [err |-> e, val |-> Scalar(NONE), ambient |-> n]

get_default_vpc_security_group_ids(D) == Returned(Get(D, "vpc_security_group_ids"), 0)

\* the subnet getter reading the security groups' key
get_default_vpc_subnet_ids_swapped(D) == Returned(Get(D, "vpc_security_group_ids"), 0)

get_default_vpc_subnet_ids(D) == Returned(Get(D, "vpc_subnet_ids"), 0)

get_default_s3_key_id(D) == Returned(Get(D, "s3_key_id"), 0)

get_default_ebs_key_id(D) == Returned(Get(D, "ebs_key_id"), 0)

\* [{'Key': k, 'Value': v} for (k, v) in tag_dict.items()]
TagList(items) ==
    LET n == Len(items)
        ix(p) == CHOOSE i \in 1..n : Str(i - 1) = p[1]
    IN  [p \in {<<>>} \cup {<<Str(i - 1)>> : i \in 1..n}
               \cup {<<Str(i - 1), f>> : i \in 1..n, f \in {"Key", "Value"}} |->
            IF Len(p) = 0 THEN LIST
            ELSE IF Len(p) = 1 THEN MAP
            ELSE IF p[2] = "Key" THEN items[ix(p)][1] ELSE items[ix(p)][2]]

\* tag_dict is None when no tag set was configured, and None has no items()
get_default_tags(D) ==
    IF "tag_key_values" \in DOMAIN D
    THEN Returned(TagList(D["tag_key_values"]), 0)
    ELSE Raised("AttributeError", 0)

\* the ambient resolver is called first, whatever the store holds
get_default_role(D, amb) ==
    IF amb = FAIL
    THEN Raised("RoleError", 1)
    ELSE Returned(IF "partial_role" \in DOMAIN D THEN D["partial_role"] ELSE Scalar(amb), 1)

Providers == {"_get_default_role", "get_default_vpc_security_group_ids",
              "get_default_vpc_subnet_ids", "get_default_s3_key_id",
              "get_default_ebs_key_id", "get_default_tags"}

\* value(): the call of the provider function named f
Call(f, D, amb) ==
    CASE f = "_get_default_role" -> get_default_role(D, amb)
      [] f = "get_default_vpc_security_group_ids" -> get_default_vpc_security_group_ids(D)
      [] f = "get_default_vpc_subnet_ids" -> get_default_vpc_subnet_ids(D)
      [] f = "get_default_s3_key_id" -> get_default_s3_key_id(D)
      [] f = "get_default_ebs_key_id" -> get_default_ebs_key_id(D)
      [] f = "get_default_tags" -> get_default_tags(D)

-----------------------------------------------------------------------------
(* The set-if-absent engine and the hook *)

\* the outcome of a call that works on a tree: the tree as the call leaves
\* it, the exception raised (OK for none), the providers invoked, in order,
\* and the number of calls of the ambient resolver
Outcome(t, e, inv, n) == [tree |-> t, err |-> e, invoked |-> inv, ambient |-> n]

Stars(path) == {i \in 1..Len(path) : path[i] = "*"}

RECURSIVE set_if_absent(_, _, _, _, _)
RECURSIVE for_range(_, _, _, _, _, _, _, _)

\* the loop over the first element only
for_range_first(d, pre_, post, i, elem_count, value, D, amb) ==
    IF i >= elem_count \/ i >= 1
    THEN Outcome(d, OK, <<>>, 0)
    ELSE set_if_absent(d, pre_ \o <<Str(i)>> \o post, value, D, amb)

\* for i in range(elem_count): _set_if_absent(d, f'{pre}{i}{post}', value),
\* from index i on; an exception ends the loop
for_range(d, pre_, post, i, elem_count, value, D, amb) ==
    IF i >= elem_count
    THEN Outcome(d, OK, <<>>, 0)
    ELSE LET r == set_if_absent(d, pre_ \o <<Str(i)>> \o post, value, D, amb)
         IN  IF r.err # OK
             THEN r
             ELSE LET rest == for_range(r.tree, pre_, post, i + 1, elem_count, value, D, amb)
                  IN  Outcome(rest.tree, rest.err, r.invoked \o rest.invoked,
                              r.ambient + rest.ambient)

set_if_absent(d, path, value, D, amb) ==
    IF Stars(path) # {}
    THEN IF Cardinality(Stars(path)) # 1
         THEN Outcome(d, "ValueError", <<>>, 0)     \* [pre, post] = path.split('*')
         ELSE LET k    == CHOOSE i \in Stars(path) : TRUE
                  pre_ == SubSeq(path, 1, k - 1)
                  post == SubSeq(path, k + 1, Len(path))
                  elem_count == Cardinality(values(d, pre_))
              IN  for_range(d, pre_, post, 0, elem_count, value, D, amb)
    ELSE IF search(d, path) = EmptyDict
         THEN LET v == Call(value, D, amb)
              IN  IF v.err # OK
                  THEN Outcome(d, v.err, <<value>>, v.ambient)
                  ELSE LET n == new(d, path, v.val)
                       IN  Outcome(n.tree, n.err, <<value>>, v.ambient)
         ELSE Outcome(d, OK, <<>>, 0)

\* _action_default_map: per action, its (path, provider) items in order
action_default_map ==
    [a \in {"CreateTrainingJob", "CreateProcessingJob", "CreateAutoMLJob"} |->
        CASE a = "CreateTrainingJob" ->
               << <<<<"RoleArn">>, "_get_default_role">>,
                  <<<<"VpcConfig", "SecurityGroupIds">>, "get_default_vpc_security_group_ids">>,
                  <<<<"VpcConfig", "Subnets">>, "get_default_vpc_subnet_ids">>,
                  <<<<"OutputDataConfig", "KmsKeyId">>, "get_default_s3_key_id">>,
                  <<<<"ResourceConfig", "VolumeKmsKeyId">>, "get_default_ebs_key_id">>,
                  <<<<"Tags">>, "get_default_tags">> >>
          [] a = "CreateProcessingJob" ->
               << <<<<"RoleArn">>, "_get_default_role">>,
                  <<<<"NetworkConfig", "VpcConfig", "SecurityGroupIds">>,
                    "get_default_vpc_security_group_ids">>,
                  <<<<"NetworkConfig", "VpcConfig", "Subnets">>, "get_default_vpc_subnet_ids">>,
                  <<<<"ProcessingOutputConfig", "KmsKeyId">>, "get_default_s3_key_id">>,
                  <<<<"ProcessingResources", "ClusterConfig", "VolumeKmsKeyId">>,
                    "get_default_ebs_key_id">>,
                  <<<<"Tags">>, "get_default_tags">> >>
          [] a = "CreateAutoMLJob" ->
               << <<<<"RoleArn">>, "_get_default_role">>,
                  <<<<"AutoMLJobConfig", "SecurityConfig", "VpcConfig", "SecurityGroupIds">>,
                    "get_default_vpc_security_group_ids">>,
                  <<<<"AutoMLJobConfig", "SecurityConfig", "VpcConfig", "Subnets">>,
                    "get_default_vpc_subnet_ids">>,
                  <<<<"OutputDataConfig", "KmsKeyId">>, "get_default_s3_key_id">>,
                  <<<<"AutoMLJobConfig", "SecurityConfig", "VolumeKmsKeyId">>,
                    "get_default_ebs_key_id">>,
                  <<<<"Tags">>, "get_default_tags">> >>]

\* for (path, value_func) in action_defaults.items(): _set_if_absent(...),
\* from item i on; an exception ends the loop
RECURSIVE for_items(_, _, _, _, _)
for_items(d, items, i, D, amb) ==
    IF i > Len(items)
    THEN Outcome(d, OK, <<>>, 0)
    ELSE LET r == set_if_absent(d, items[i][1], items[i][2], D, amb)
         IN  IF r.err # OK
             THEN r
             ELSE LET rest == for_items(r.tree, items, i + 1, D, amb)
                  IN  Outcome(rest.tree, rest.err, r.invoked \o rest.invoked,
                              r.ambient + rest.ambient)

\* the hook with a fallback entry for the actions the table does not hold
insert_defaults_fallback(d, action, D, amb) ==
    IF action \in DOMAIN action_default_map
    THEN for_items(d, action_default_map[action], 1, D, amb)
    ELSE for_items(d, action_default_map["CreateTrainingJob"], 1, D, amb)

insert_defaults(d, action, D, amb) ==
    IF action \in DOMAIN action_default_map
    THEN for_items(d, action_default_map[action], 1, D, amb)
    ELSE Outcome(d, OK, <<>>, 0)


-----------------------------------------------------------------------------
(* The request trees callers hand in *)

EmptyList == (<<>> :> LIST)

\* values a caller puts at a path the table declares, and at a node above one
LeafVals == {Scalar("caller"), Scalar(NONE)}
NodeVals == {EmptyDict, Scalar("caller")}
TagVals  == {EmptyList, TagList(<< <<"owner", "me">> >>)}

DeclaredPaths(a) == {action_default_map[a][i][1] : i \in 1..Len(action_default_map[a])}

Above(P) == UNION {{SubSeq(p, 1, k) : k \in 1..(Len(p) - 1)} : p \in P}

\* the fields (path, value) a caller may set in a request of action a
Fields(a) ==
    (DeclaredPaths(a) \X LeafVals) \cup (Above(DeclaredPaths(a)) \X NodeVals)
        \cup ({<<"Tags">>} \X TagVals)

\* the dict a caller builds by setting field f, then field g
With(t, f) == new(t, f[1], f[2])

Compatible(f, g) ==
    /\ f # g
    /\ g[1] \notin DOMAIN With(EmptyDict, f).tree
    /\ With(With(EmptyDict, f).tree, g).err = OK

\* every request tree with at most two such fields
TreesOf(F) ==
    {EmptyDict} \cup {With(EmptyDict, f).tree : f \in F}
        \cup {With(With(EmptyDict, x[1]).tree, x[2]).tree :
                 x \in {y \in F \X F : Compatible(y[1], y[2])}}

TrainingTrees   == TreesOf(Fields("CreateTrainingJob"))
ProcessingTrees == TreesOf(Fields("CreateProcessingJob"))
AutoMLTrees     == TreesOf(Fields("CreateAutoMLJob"))

\* the actions the transport announces: the three of the table and one that
\* the table does not hold
ActionNames == {"CreateTrainingJob", "CreateProcessingJob", "CreateAutoMLJob",
                "CreateAlgorithm"}

CallerTrees(a) ==
    CASE a = "CreateTrainingJob" -> TrainingTrees
      [] a = "CreateProcessingJob" -> ProcessingTrees
      [] a = "CreateAutoMLJob" -> AutoMLTrees
      [] OTHER -> TrainingTrees

\* a repeated group: the elements a caller puts in the list ProcessingInputs
Group == <<"ProcessingInputs">>
Elems ==
    {Scalar("caller"), EmptyDict,
     (<<>> :> MAP) @@ (<<"S3Input">> :> MAP),
     (<<>> :> MAP) @@ (<<"S3Input">> :> MAP) @@ (<<"S3Input", "KmsKeyId">> :> "caller"),
     (<<>> :> MAP) @@ (<<"S3Input">> :> MAP) @@ (<<"S3Input", "KmsKeyId">> :> NONE)}

RECURSIVE ListTree(_, _)
ListTree(es, n) ==
    IF n = 0
    THEN Graft(EmptyDict, Group, EmptyList)
    ELSE Graft(ListTree(es, n - 1), Group \o <<Str(n - 1)>>, es[n])

\* the group absent, a scalar or a dict in its place, and every list of at
\* most MaxElems elements
GroupTrees ==
    {EmptyDict, Graft(EmptyDict, Group, Scalar("caller")),
     Graft(Graft(EmptyDict, Group, EmptyDict), Group \o <<"first">>, EmptyDict)}
        \cup {ListTree(es, Len(es)) : es \in UNION {[1..n -> Elems] : n \in 0..MaxElems}}

\* the paths _set_if_absent is applied to on those trees: one with the
\* wildcard, one element addressed directly, the group itself, two wildcards
EnginePaths ==
    {<<"ProcessingInputs", "*", "S3Input", "KmsKeyId">>,
     <<"ProcessingInputs", "0", "S3Input", "KmsKeyId">>,
     <<"ProcessingInputs">>,
     <<"ProcessingInputs", "*", "S3Input", "*">>}

\* the providers it is applied with: one that asks the ambient resolver, one
\* that returns the stored value or None, one that can raise
EngineProviders == {"_get_default_role", "get_default_s3_key_id", "get_default_tags"}

-----------------------------------------------------------------------------
(* The store, the engine and the hook as a state machine *)

NoCall == [op |-> "none", action |-> "", path |-> <<>>, provider |-> "",
           err |-> OK, invoked |-> <<>>, ambient |-> 0, amb |-> "", ret |-> ""]

\* the record of a call: the outcome r of a call under ambient outcome amb,
\* which is observable only if the resolver was called
Called(o, a, p, f, r, amb, ret) ==
    [op |-> o, action |-> a, path |-> p, provider |-> f,
     err |-> r.err, invoked |-> r.invoked, ambient |-> r.ambient,
     amb |-> IF r.ambient > 0 THEN amb ELSE "", ret |-> ret]

InitStore ==
    /\ defaults = << >>
    /\ params = EmptyDict
    /\ pre = EmptyDict
    /\ last = NoCall
    /\ role_set = ""

\* no call is in progress: the code is single-threaded and synchronous, and
\* a request tree does not outlive its call
Idle == last.op = "none"

\* the setters
SetDefaultVpc ==
    /\ Idle
    /\ \E s \in SubnetLists, g \in GroupLists : defaults' = set_default_vpc(defaults, s, g)
    /\ UNCHANGED <<params, pre, last, role_set, sessVars, genVars>>

SetDefaultS3Key ==
    /\ Idle
    /\ \E k \in KmsKeys : defaults' = set_default_s3_key(defaults, k)
    /\ UNCHANGED <<params, pre, last, role_set, sessVars, genVars>>

SetDefaultEbsKey ==
    /\ Idle
    /\ \E k \in KmsKeys : defaults' = set_default_ebs_key(defaults, k)
    /\ UNCHANGED <<params, pre, last, role_set, sessVars, genVars>>

SetDefaultTags ==
    /\ Idle
    /\ \E t \in TagDicts : defaults' = set_default_tags(defaults, t)
    /\ UNCHANGED <<params, pre, last, role_set, sessVars, genVars>>

SetDefaultRole ==
    /\ Idle
    /\ \E r \in RoleArns :
           /\ defaults' = set_default_role(defaults, r)
           /\ role_set' = r
    /\ UNCHANGED <<params, pre, last, sessVars, genVars>>

\* a call of _get_default_role(), as the generated wrappers make it
GetDefaultRole ==
    \E amb \in AmbientOutcomes :
        LET r == get_default_role(defaults, amb)
        IN  /\ Idle
            /\ last' = Called("_get_default_role", "", <<>>, "",
                              [err |-> r.err, invoked |-> <<>>, ambient |-> r.ambient],
                              amb, IF r.err = OK THEN r.val[<<>>] ELSE "")
            /\ UNCHANGED <<defaults, params, pre, role_set, sessVars, genVars>>

\* a call of _set_if_absent(d, path, value) on a tree with a repeated group
SetIfAbsent ==
    \E d \in GroupTrees, path \in EnginePaths, value \in EngineProviders :
        \E amb \in AmbientOutcomes :
            LET r == set_if_absent(d, path, value, defaults, amb)
            IN  /\ Idle
                /\ pre' = d
                /\ params' = r.tree
                /\ last' = Called("_set_if_absent", "", path, value, r, amb, "")
                /\ UNCHANGED <<defaults, role_set, sessVars, genVars>>

\* the hook: _insert_defaults(params, model=<the action>) before a send
InsertDefaults ==
    \E action \in ActionNames, amb \in AmbientOutcomes :
        \E d \in CallerTrees(action) :
            LET r == insert_defaults(d, action, defaults, amb)
            IN  /\ Idle
                /\ pre' = d
                /\ params' = r.tree
                /\ last' = Called("_insert_defaults", action, <<>>, "", r, amb, "")
                /\ UNCHANGED <<defaults, role_set, sessVars, genVars>>

\* the call returns (or its exception reaches the caller), the transport
\* sends the request, and the tree is discarded
Return ==
    /\ ~Idle
    /\ params' = EmptyDict
    /\ pre' = EmptyDict
    /\ last' = NoCall
    /\ UNCHANGED <<defaults, role_set, sessVars, genVars>>

-----------------------------------------------------------------------------
(* The default session *)

\* _default_session = None; a session object is a positive number, the n-th
\* sagemaker.Session constructed
NoSession == 0

NoSessCall == [op |-> "none", arg |-> NoSession, before |-> NoSession,
               ret |-> NoSession, err |-> OK, constructed |-> 0]

InitSession ==
    /\ default_session = NoSession
    /\ created = 0
    /\ hooked = {}
    /\ first = NoSession
    /\ sess = NoSessCall

\* what the collaborators can do: boto3.client('sagemaker') and
\* sagemaker.Session(**kwargs) return, or raise
Collab == {OK, FAIL}

\* the result of a session call: the default session it leaves, the
\* sessions given the hooked client, the session returned, the exception
\* raised, the number of sessions constructed, and the session that got
\* through set_session_defaults to its test of _default_session
SessResult(ds, hk, ret, err, n, thr) ==
    [ds |-> ds, hooked |-> hk, ret |-> ret, err |-> err, constructed |-> n,
     through |-> thr]

\* set_session_defaults without the test of _default_session
set_session_defaults_latest(ds, hk, sagemaker_session, boto) ==
    IF boto = FAIL
    THEN SessResult(ds, hk, NoSession, "ClientError", 0, NoSession)
    ELSE IF sagemaker_session = NoSession
    THEN SessResult(ds, hk, NoSession, "AttributeError", 0, NoSession)
    ELSE SessResult(sagemaker_session, hk \cup {sagemaker_session}, sagemaker_session,
                    OK, 0, sagemaker_session)

\* set_session_defaults(sagemaker_session) with _default_session = ds
set_session_defaults(ds, hk, sagemaker_session, boto) ==
    IF boto = FAIL
    THEN SessResult(ds, hk, NoSession, "ClientError", 0, NoSession)
    ELSE IF sagemaker_session = NoSession
    THEN SessResult(ds, hk, NoSession, "AttributeError", 0, NoSession)
    ELSE SessResult(IF ds = NoSession THEN sagemaker_session ELSE ds,
                    hk \cup {sagemaker_session}, sagemaker_session, OK, 0,
                    sagemaker_session)

\* Session(**kwargs) when n sessions exist: constructs session n + 1 and
\* hands it to set_session_defaults
Session(ds, hk, n, ctor, boto) ==
    IF ctor = FAIL
    THEN SessResult(ds, hk, NoSession, "SessionError", 0, NoSession)
    ELSE [set_session_defaults(ds, hk, n + 1, boto) EXCEPT !.constructed = 1]

\* _get_default_session()
get_default_session(ds, hk, n, ctor, boto) ==
    IF ds = NoSession
    THEN Session(ds, hk, n, ctor, boto)
    ELSE SessResult(ds, hk, ds, OK, 0, NoSession)

\* a generated wrapper (_wrapper_tmpl) called with sagemaker_session = arg;
\* has_param: the wrapped class takes a sagemaker_session parameter.  The
\* session it hands to the class is ret
wrapper(ds, hk, n, D, amb, has_param, arg, ctor, boto) ==
    IF get_default_role(D, amb).err # OK
    THEN SessResult(ds, hk, NoSession, "RoleError", 0, NoSession)
    ELSE IF has_param /\ arg = NoSession
    THEN get_default_session(ds, hk, n, ctor, boto)
    ELSE SessResult(ds, hk, arg, OK, 0, NoSession)

\* the state after a session call with result r
SessionCall(o, arg, r) ==
    /\ created + r.constructed <= MaxSessions
    /\ default_session' = r.ds
    /\ hooked' = r.hooked
    /\ created' = created + r.constructed
    /\ first' = IF first = NoSession THEN r.through ELSE first
    /\ sess' = [op |-> o, arg |-> arg, before |-> default_session,
                ret |-> r.ret, err |-> r.err, constructed |-> r.constructed]
    /\ UNCHANGED <<storeVars, genVars>>

\* the caller constructs a session of its own: sagemaker.Session()
ConstructSession ==
    /\ created < MaxSessions
    /\ created' = created + 1
    /\ sess' = [NoSessCall EXCEPT !.op = "sagemaker.Session", !.ret = created + 1,
                                  !.before = default_session, !.constructed = 1]
    /\ UNCHANGED <<default_session, hooked, first, storeVars, genVars>>

\* the caller hands set_session_defaults None or a session that exists
SetSessionDefaults ==
    \E arg \in 0..created, boto \in Collab :
        SessionCall("set_session_defaults", arg,
                    set_session_defaults(default_session, hooked, arg, boto))

CallSession ==
    \E ctor \in Collab, boto \in Collab :
        SessionCall("Session", NoSession,
                    Session(default_session, hooked, created, ctor, boto))

GetDefaultSession ==
    \E ctor \in Collab, boto \in Collab :
        SessionCall("_get_default_session", NoSession,
                    get_default_session(default_session, hooked, created, ctor, boto))

CallWrapper ==
    \E has_param \in BOOLEAN, arg \in 0..created, amb \in AmbientOutcomes,
       ctor \in Collab, boto \in Collab :
        SessionCall("wrapper", arg,
                    wrapper(default_session, hooked, created, defaults, amb,
                            has_param, arg, ctor, boto))

NextSession ==
    \/ SetSessionDefaults
    \/ ConstructSession
    \/ CallSession
    \/ GetDefaultSession
    \/ CallWrapper

-----------------------------------------------------------------------------
(* The generator of wrappers *)

\* A dotted name is the sequence of its components.  A member of a module is
\* a class (fq: __module__ + '.' + __name__; name: the name it is bound to;
\* role: its signature has a role parameter) or a module (fq: __name__).
Class(mod, n, r) == [kind |-> "class", fq |-> mod \o <<n>>, name |-> n, role |-> r]
Module(m)        == [kind |-> "module", fq |-> m, name |-> m[Len(m)], role |-> FALSE]

\* the modules _list_pkg_modules('sagemaker') lists
SdkModules == {<<"sagemaker", "estimator">>, <<"sagemaker", "pytorch">>}

\* what a module of the SDK can hold, in the order of inspect.getmembers
\* (sorted by name): classes of the SDK with and without a role parameter,
\* two with one name, one named like a function this module defines, a class
\* from elsewhere, and the modules themselves
AllMembers ==
    << Class(<<"botocore", "client">>, "BaseClient", TRUE),
       Class(<<"sagemaker", "estimator">>, "Estimator", TRUE),
       Class(<<"sagemaker", "pytorch">>, "Estimator", TRUE),
       Class(<<"sagemaker", "pytorch">>, "PyTorch", TRUE),
       Class(<<"sagemaker", "estimator">>, "Session", TRUE),
       Class(<<"sagemaker", "estimator">>, "TrainingInput", FALSE),
       Module(<<"sagemaker", "estimator">>),
       Module(<<"sagemaker", "pytorch">>) >>

Classes == {o.fq : o \in {x \in Range(AllMembers) : x.kind = "class"}}

\* the names this module defines itself, before the generation loop runs
StaticGlobals == {"Session", "set_session_defaults", "set_default_role"}

\* the member lists a module can have: at most MaxMembers members, no name twice
MemberLists ==
    {SelectSeq(AllMembers, LAMBDA o : o \in S) :
        S \in {T \in SUBSET Range(AllMembers) :
                  /\ Cardinality(T) <= MaxMembers
                  /\ \A x, y \in T : x.name = y.name => x = y}}

\* c_name.startswith('sagemaker.')
StartsWithSagemaker(fq) == Len(fq) >= 2 /\ fq[1] = "sagemaker"

InitGen ==
    /\ history = <<>>
    /\ members = [m \in SdkModules |-> <<>>]
    /\ todo = {}
    /\ stack = <<>>
    /\ processed = [m \in SdkModules |-> 0]
    /\ wrapped = [c \in Classes |-> 0]
    /\ globs = StaticGlobals

\* the module is imported: every listed module is still to be visited
InitGenRun ==
    /\ history = <<>>
    /\ members \in [SdkModules -> MemberLists]
    /\ todo = SdkModules
    /\ stack = <<>>
    /\ processed = [m \in SdkModules |-> 0]
    /\ wrapped = [c \in Classes |-> 0]
    /\ globs = StaticGlobals

Top == stack[Len(stack)]

\* the frame on top of the stack moves to its next member
Advance(st) == [st EXCEPT ![Len(st)] = <<st[Len(st)][1], st[Len(st)][2] + 1>>]

\* the load-time loop takes a module (a set has no order), imports it and
\* calls _wrap_classes on it
ImportModule ==
    /\ stack = <<>>
    /\ \E m \in todo :
        /\ todo' = todo \ {m}
        /\ stack' = << <<m, 1>> >>
        /\ processed' = [processed EXCEPT ![m] = @ + 1]
    /\ UNCHANGED <<history, members, wrapped, globs, storeVars, sessVars>>

\* importlib.import_module raises ImportError: the loop passes on
ImportFails ==
    /\ stack = <<>>
    /\ \E m \in todo : todo' = todo \ {m}
    /\ UNCHANGED <<history, members, stack, processed, wrapped, globs, storeVars, sessVars>>

\* _wrap_classes meets a member that is a class
VisitClass ==
    /\ stack # <<>>
    /\ Top[2] <= Len(members[Top[1]])
    /\ LET obj == members[Top[1]][Top[2]]
           take == StartsWithSagemaker(obj.fq) /\ obj.fq \notin Range(history) /\ obj.role
           wrap == take /\ obj.name \notin globs
       IN  /\ obj.kind = "class"
           /\ history' = IF take THEN Append(history, obj.fq) ELSE history
           /\ wrapped' = IF wrap THEN [wrapped EXCEPT ![obj.fq] = @ + 1] ELSE wrapped
           /\ globs' = IF wrap THEN globs \cup {obj.name} ELSE globs
    /\ stack' = Advance(stack)
    /\ UNCHANGED <<members, todo, processed, storeVars, sessVars>>

\* _wrap_classes meets a member that is a module, and recurses into it if it
\* is of the SDK and not in the history
VisitModule ==
    /\ stack # <<>>
    /\ Top[2] <= Len(members[Top[1]])
    /\ LET obj == members[Top[1]][Top[2]]
           take == StartsWithSagemaker(obj.fq) /\ obj.fq \notin Range(history)
       IN  /\ obj.kind = "module"
           /\ history' = IF take THEN Append(history, obj.fq) ELSE history
           /\ stack' = IF take THEN Append(Advance(stack), <<obj.fq, 1>>) ELSE Advance(stack)
           /\ processed' = IF take THEN [processed EXCEPT ![obj.fq] = @ + 1] ELSE processed
    /\ UNCHANGED <<members, todo, wrapped, globs, storeVars, sessVars>>

\* _wrap_classes has met every member and returns
ReturnFrame ==
    /\ stack # <<>>
    /\ Top[2] > Len(members[Top[1]])
    /\ stack' = SubSeq(stack, 1, Len(stack) - 1)
    /\ UNCHANGED <<history, members, todo, processed, wrapped, globs, storeVars, sessVars>>

NextGen ==
    \/ ImportModule
    \/ ImportFails
    \/ VisitClass
    \/ VisitModule
    \/ ReturnFrame

Init == InitStore /\ InitSession /\ InitGen

\* the default store and the role resolver
NextRole ==
    \/ SetDefaultVpc
    \/ SetDefaultS3Key
    \/ SetDefaultEbsKey
    \/ SetDefaultTags
    \/ SetDefaultRole
    \/ GetDefaultRole
    \/ Return

SpecRole == Init /\ [][NextRole]_vars

\* the engine, alone and driven by the hook, under the defaults that the
\* providers it is applied with read
NextEngine ==
    \/ SetDefaultS3Key
    \/ SetDefaultTags
    \/ SetDefaultRole
    \/ SetIfAbsent
    \/ InsertDefaults
    \/ Return

SpecEngine == Init /\ [][NextEngine]_vars

\* the hook, under every configuration of the store
NextHook ==
    \/ SetDefaultVpc
    \/ SetDefaultS3Key
    \/ SetDefaultEbsKey
    \/ SetDefaultTags
    \/ SetDefaultRole
    \/ InsertDefaults
    \/ Return

SpecHook == Init /\ [][NextHook]_vars

SpecSession == Init /\ [][NextSession]_vars

InitGenerate == InitStore /\ InitSession /\ InitGenRun

SpecGen == InitGenerate /\ [][NextGen]_vars

-----------------------------------------------------------------------------
(* The claims *)

IsHook     == last.op = "_insert_defaults"
IsEngine   == last.op = "_set_if_absent"
Supported  == last.action \in DOMAIN action_default_map
Entries    == action_default_map[last.action]
PathOf(f)  == Entries[CHOOSE i \in 1..Len(Entries) : Entries[i][2] = f][1]
ProperPrefixes(p) == {SubSeq(p, 1, k) : k \in 1..(Len(p) - 1)}

\* the store key a getter reads
KeyOf(f) ==
    CASE f = "get_default_vpc_security_group_ids" -> "vpc_security_group_ids"
      [] f = "get_default_vpc_subnet_ids" -> "vpc_subnet_ids"
      [] f = "get_default_s3_key_id" -> "s3_key_id"
      [] f = "get_default_ebs_key_id" -> "ebs_key_id"
      [] OTHER -> ""

\* C1: explicit values win.  When _set_if_absent is applied to a path without
\* wildcard at which the tree holds a value (None, an empty list and an empty
\* dict included), the tree after the call is the tree before it, no provider
\* and no ambient resolver was invoked and nothing was raised; and after the
\* hook, however it ended, every node of the caller's tree is still there
\* with its value, the value at each declared path the caller had set is
\* what it was, and the provider of such a path was not invoked.
C1_ExplicitValuePrecedence ==
    /\ (IsEngine /\ Stars(last.path) = {} /\ last.path \in DOMAIN pre)
          => /\ params = pre
             /\ last.invoked = <<>>
             /\ last.ambient = 0
             /\ last.err = OK
    /\ IsHook
          => /\ \A p \in DOMAIN pre : p \in DOMAIN params /\ params[p] = pre[p]
             /\ Supported =>
                  \A i \in 1..Len(Entries) :
                      Entries[i][1] \in DOMAIN pre
                          => /\ Sub(params, Entries[i][1]) = Sub(pre, Entries[i][1])
                             /\ Entries[i][2] \notin Range(last.invoked)

\* C1's case: the engine was applied to a path that held None, with a
\* provider that would have raised
C1_Witness ==
    /\ IsEngine
    /\ Stars(last.path) = {}
    /\ last.path \in DOMAIN pre
    /\ pre[last.path] = NONE
    /\ last.provider = "get_default_tags"
    /\ "tag_key_values" \notin DOMAIN defaults

\* C2: when _get_default_role() returns, it returns the argument of the
\* latest set_default_role call if there was one, whatever the ambient
\* resolver returned, and otherwise what the ambient resolver returned.
C2_RoleOverridePrecedence ==
    (last.op = "_get_default_role" /\ last.err = OK)
        => last.ret = (IF role_set # "" THEN role_set ELSE last.amb)

\* C2's case: the override was set twice at least (role-B is the latest), the
\* ambient resolver returned another role, and the override was returned
C2_Witness ==
    /\ last.op = "_get_default_role"
    /\ role_set = "role-B"
    /\ last.amb = "role-ambient"
    /\ last.ret = "role-B"

\* C3: a call of _get_default_role() made while an override is in the store
\* does not call the ambient resolver, and so cannot fail with it.
C3_AmbientOnlyWithoutOverride ==
    (last.op = "_get_default_role" /\ "partial_role" \in DOMAIN defaults)
        => (last.ambient = 0 /\ last.err = OK)

\* C4: the hook, fired for an action of the table on a tree none of whose
\* declared paths is blocked, with a default never set (no tag set, and no
\* Tags in the tree) and an ambient resolver that does not fail, raises
\* nothing.
C4_UnconfiguredNeverRaises ==
    (/\ IsHook
     /\ Supported
     /\ last.amb # FAIL
     /\ \A i \in 1..Len(Entries) :
           \A q \in ProperPrefixes(Entries[i][1]) : q \in DOMAIN pre => pre[q] = MAP)
        => last.err = OK

\* C5: the wildcard distributes over the elements there are and creates none.
\* When _set_if_absent is applied to a path with one wildcard and the node at
\* the prefix is a list of n elements (or is absent or a scalar: n = 0), the
\* list has the same n elements after the call and every node of the tree is
\* kept; for n = 0 the tree is unchanged and no provider is invoked; an
\* element that had the suffix field is unchanged; when the call raises
\* nothing, every element has the field, with the provider's value where it
\* lacked it; and the call raises only if an element lacks the field and
\* either is no dict or the provider raises.
C5_WildcardDistributes ==
    LET k     == CHOOSE i \in Stars(last.path) : TRUE
        pre_  == SubSeq(last.path, 1, k - 1)
        post  == SubSeq(last.path, k + 1, Len(last.path))
        n     == Cardinality(values(pre, pre_))
        el(i) == pre_ \o <<Str(i)>>
        v     == Call(last.provider, defaults, last.amb).val
    IN  (/\ IsEngine
         /\ Cardinality(Stars(last.path)) = 1
         /\ (pre_ \in DOMAIN pre => pre[pre_] # MAP))
            => /\ values(params, pre_) = values(pre, pre_)
               /\ Cardinality(values(params, pre_)) = n
               /\ \A p \in DOMAIN pre : p \in DOMAIN params /\ params[p] = pre[p]
               /\ n = 0 => (params = pre /\ last.invoked = <<>>)
               /\ \A i \in 0..(n - 1) :
                     (el(i) \o post) \in DOMAIN pre => Sub(params, el(i)) = Sub(pre, el(i))
               /\ last.err = OK =>
                     \A i \in 0..(n - 1) :
                         /\ (el(i) \o post) \in DOMAIN params
                         /\ (el(i) \o post) \notin DOMAIN pre
                               => Sub(params, el(i) \o post) = v
               /\ last.err # OK =>
                     \E i \in 0..(n - 1) :
                         /\ (el(i) \o post) \notin DOMAIN pre
                         /\ \/ pre[el(i)] # MAP
                            \/ Call(last.provider, defaults, last.amb).err = last.err

\* C5's case: a list of two elements or more, one with the field and one
\* without, and a call that raised nothing and set it
C5_Witness ==
    LET k     == CHOOSE i \in Stars(last.path) : TRUE
        pre_  == SubSeq(last.path, 1, k - 1)
        post  == SubSeq(last.path, k + 1, Len(last.path))
    IN  /\ IsEngine
        /\ Cardinality(Stars(last.path)) = 1
        /\ pre_ \in DOMAIN pre
        /\ pre[pre_] = LIST
        /\ Cardinality(values(pre, pre_)) >= 2
        /\ \E e \in values(pre, pre_) : (e \o post) \in DOMAIN pre
        /\ \E e \in values(pre, pre_) :
              (e \o post) \notin DOMAIN pre /\ (e \o post) \in DOMAIN params
        /\ last.err = OK

\* C6: after the hook for an action of the table, with the network placement
\* configured and neither VPC field in the caller's tree, the configured
\* subnets and security groups are at the action's subnet and security-group
\* paths, however the hook ended, provided the hook got to them: the ambient
\* resolver, if it was called, did not fail, and no scalar stands in the
\* caller's tree where a container of the VPC fields goes; and a Tags field
\* the caller had set is what it was, however the hook ended.
C6_HookPostcondition ==
    (IsHook /\ Supported)
        => LET sg == PathOf("get_default_vpc_security_group_ids")
               sn == PathOf("get_default_vpc_subnet_ids")
           IN  /\ (/\ "vpc_subnet_ids" \in DOMAIN defaults
                   /\ "vpc_security_group_ids" \in DOMAIN defaults
                   /\ sg \notin DOMAIN pre
                   /\ sn \notin DOMAIN pre
                   /\ \A q \in ProperPrefixes(sg) \cup ProperPrefixes(sn) :
                         q \in DOMAIN pre => pre[q] = MAP
                   /\ last.amb # FAIL)
                      => /\ sn \in DOMAIN params
                         /\ sg \in DOMAIN params
                         /\ Sub(params, sn) = defaults["vpc_subnet_ids"]
                         /\ Sub(params, sg) = defaults["vpc_security_group_ids"]
                         /\ Sub(params, sn) \in {ListOf(x) : x \in SubnetLists}
                         /\ Sub(params, sg) \in {ListOf(x) : x \in GroupLists}
               /\ <<"Tags">> \in DOMAIN pre
                      => /\ <<"Tags">> \in DOMAIN params
                         /\ Sub(params, <<"Tags">>) = Sub(pre, <<"Tags">>)

\* C6's case: the placement is configured, the caller set a Tags list of one
\* tag and no VPC field, and the hook returned
C6_Witness ==
    /\ IsHook
    /\ Supported
    /\ "vpc_subnet_ids" \in DOMAIN defaults
    /\ PathOf("get_default_vpc_subnet_ids") \notin DOMAIN pre
    /\ PathOf("get_default_vpc_security_group_ids") \notin DOMAIN pre
    /\ <<"Tags", "0", "Key">> \in DOMAIN pre
    /\ last.err = OK
    /\ Sub(params, PathOf("get_default_vpc_subnet_ids")) = ListOf(<<"subnet-1">>)

\* C7: a firing of the hook with an action the table does not hold leaves the
\* request tree and the default store as they were, invokes no provider and
\* no ambient resolver, and raises nothing.
C7_UnsupportedPassThrough ==
    [][(/\ last.op = "none"
        /\ last'.op = "_insert_defaults"
        /\ last'.action \notin DOMAIN action_default_map)
          => /\ params' = pre'
             /\ defaults' = defaults
             /\ last'.invoked = <<>>
             /\ last'.ambient = 0
             /\ last'.err = OK]_vars

\* C7's case: the hook was fired with CreateAlgorithm on a tree that lacks
\* fields the table's entries would fill, with defaults configured
C7_Witness ==
    /\ IsHook
    /\ last.action = "CreateAlgorithm"
    /\ <<"RoleArn">> \notin DOMAIN pre
    /\ <<"VpcConfig">> \in DOMAIN pre
    /\ "vpc_subnet_ids" \in DOMAIN defaults
    /\ "tag_key_values" \in DOMAIN defaults

\* C8: over the generation run, _wrap_classes starts on each module of the
\* SDK at most once and _wrap_class is applied to each class at most once.
C8_NonDuplication ==
    /\ \A m \in SdkModules : processed[m] <= 1
    /\ \A c \in Classes : wrapped[c] <= 1

\* C9: the default session is the first session that got through
\* set_session_defaults, from then on (so it is set then and never replaced);
\* and a call of _get_default_session(), or of a wrapper, made when a default
\* session exists constructs no session, _get_default_session() returning
\* that default session.
C9_DefaultSessionSingleton ==
    /\ default_session = first
    /\ default_session \in 0..created
    /\ (sess.op \in {"_get_default_session", "wrapper"} /\ sess.before # NoSession)
          => (sess.constructed = 0 /\ default_session = sess.before)
    /\ (sess.op = "_get_default_session" /\ sess.before # NoSession)
          => (sess.ret = sess.before /\ sess.err = OK)

\* C9's case: _get_default_session() returned the default session, the first
\* of three, after later sessions had gone through set_session_defaults
C9_Witness ==
    /\ sess.op = "_get_default_session"
    /\ sess.before = 1
    /\ sess.ret = 1
    /\ created = 3
    /\ hooked = {1, 2, 3}

\* C10: after the hook has returned for an action of the table, every path
\* declared for the action is in the tree; where the path's default is a
\* network or key default that was never configured and the caller's tree
\* did not hold the path, the value there is None.
C10_DeclaredPathsPresent ==
    (IsHook /\ Supported /\ last.err = OK)
        => \A i \in 1..Len(Entries) :
              LET p == Entries[i][1]
                  f == Entries[i][2]
              IN  /\ p \in DOMAIN params
                  /\ (KeyOf(f) # "" /\ KeyOf(f) \notin DOMAIN defaults /\ p \notin DOMAIN pre)
                        => Sub(params, p) = Scalar(NONE)

\* C10's case: no key and no placement was configured, the caller set none of
\* those fields, and the hook returned
C10_Witness ==
    /\ IsHook
    /\ Supported
    /\ last.err = OK
    /\ DOMAIN defaults = {"tag_key_values"}
    /\ \A i \in 1..Len(Entries) : KeyOf(Entries[i][2]) # "" => Entries[i][1] \notin DOMAIN pre
    /\ pre # EmptyDict

====
